---- MODULE Spec2Model ----
(***************************************************************************)
(* Hot-reload backend of maud_macros_impl:                                 *)
(*   - gather_html_macro_invocations (src/maud_macros_impl/src/lib.rs),    *)
(*     the source recovery scanner;                                        *)
(*   - the block emitted by expand_runtime_from_parsed together with       *)
(*     expand_runtime_main (same file);                                    *)
(*   - RuntimeGenerator / RuntimeBuilder                                   *)
(*     (src/maud_macros_impl/src/runtime.rs).                              *)
(* Strings are sequences of one-character strings.                         *)
(***************************************************************************)
EXTENDS Integers, Sequences, FiniteSets

VARIABLES
    \* ---- gather_html_macro_invocations ----
    g_pc,             \* position in the function
    file_path,        \* argument: [abs, segs]
    skip_to_keyword,  \* argument
    to_skip,          \* lines the .skip(start_line - 1) adapter still drops
    path_idx,         \* index of the candidate path the for loop is at
    tried,            \* paths handed to File::open, in order
    errors,           \* the `errors` String
    file,             \* the `file` Option: None or the path opened
    eof,              \* lines_iter is exhausted
    nread,            \* characters read from the keyword line on, line ends included
    found_line,       \* the line in which split_once found the keyword
    rest_of_line,     \* the `rest_of_line` String
    lines_in,         \* lines the 'linewise loop has been handed, in order
    line,             \* rest of the line the 'linewise loop is iterating
    consumed,         \* characters the inner loop has taken, newlines included
    braces_diff,      \* the `braces_diff` counter
    output,           \* the `output` String
    g_result,         \* the value returned
    \* ---- the block expand_runtime_from_parsed emits, and expand_runtime_main ----
    e_pc,             \* position in the emitted block
    maud_file_info,   \* __maud_file_info = file!()
    maud_line_info,   \* __maud_line_info = line!()
    e_keyword,        \* the #skip_to_keyword literal
    original_input,   \* the #original_input literal
    env,              \* value of MAUD_SOURCE_NO_FALLBACK
    recovery,         \* what gather_html_macro_invocations returned
    maud_input,       \* __maud_input after the match
    maud_vars,        \* __maud_vars
    main_calls,       \* inputs expand_runtime_main was called with
    res,              \* `res`: what catch_unwind returned
    main_ret,         \* what expand_runtime_main returned
    e_outcome,        \* value of the block, or the panic that ended it
    \* ---- RuntimeGenerator over a RuntimeBuilder ----
    b_pc,             \* "build" while markups are walked, then "done"
    markups,          \* the markups walked so far
    vars_ident,       \* RuntimeBuilder.vars_ident is Some
    tokens,           \* RuntimeBuilder.tokens
    format_str,       \* RuntimeBuilder.format_str
    arg_track,        \* RuntimeBuilder.arg_track
    escaped_log       \* per push_escaped call: its argument and the span it wrote

gvars == <<g_pc, file_path, skip_to_keyword, to_skip, path_idx, tried, errors,
           file, eof, nread, found_line, rest_of_line, lines_in, line,
           consumed, braces_diff, output, g_result>>

evars == <<e_pc, maud_file_info, maud_line_info, e_keyword, original_input, env,
           recovery, maud_input, maud_vars, main_calls, res, main_ret, e_outcome>>

bvars == <<b_pc, markups, vars_ident, tokens, format_str, arg_track, escaped_log>>

vars == <<gvars, evars, bvars>>

----------------------------------------------------------------------------
(* Bounds *)
MaxLineLen == 5
MaxChars == 6
MaxStartLine == 2
MaxMarkups == 3

None == [tag |-> "None"]
Ok(x) == [tag |-> "Ok", val |-> x]
Err(e) == [tag |-> "Err", val |-> e]

Last(s) == s[Len(s)]

RECURSIVE SeqsUpTo(_, _)
SeqsUpTo(S, n) ==
    IF n = 0 THEN {<<>>}
    ELSE LET shorter == SeqsUpTo(S, n - 1)
         IN  shorter \cup {Append(s, c) : s \in {t \in shorter : Len(t) = n - 1}, c \in S}

----------------------------------------------------------------------------
(* Text helpers: str::split_once, str::trim, the bracket classes *)

IsOpening(c) == c \in {"[", "{", "("}
IsClosing(c) == c \in {"]", "}", ")"}
IsWhitespace(c) == c \in {" ", "\n", "\t"}

OccursAt(s, pat, i) ==
    /\ i >= 1
    /\ i + Len(pat) - 1 <= Len(s)
    /\ SubSeq(s, i, i + Len(pat) - 1) = pat

\* index of the first occurrence of pat in s, 0 when there is none
FindFirst(s, pat) ==
    IF \E i \in 1..Len(s) : OccursAt(s, pat, i)
    THEN CHOOSE i \in 1..Len(s) :
            /\ OccursAt(s, pat, i)
            /\ \A j \in 1..(i - 1) : ~OccursAt(s, pat, j)
    ELSE 0

\* str::split_once: None, or Some((before, after)) around the first occurrence
SplitOnce(s, pat) ==
    LET i == FindFirst(s, pat)
    IN  IF i = 0 THEN None
        ELSE [tag |-> "Some",
              before |-> SubSeq(s, 1, i - 1),
              after |-> SubSeq(s, i + Len(pat), Len(s))]

\* output.trim().is_empty()
TrimIsEmpty(s) == \A i \in 1..Len(s) : IsWhitespace(s[i])

----------------------------------------------------------------------------
(* Paths: Path::join, std::path::absolute *)

ParentDir == [abs |-> FALSE, segs |-> <<"..">>]
Cwd == <<"w">>

\* Path::join: an absolute argument replaces the base
PathJoin(base, p) ==
    IF p.abs THEN p ELSE [abs |-> base.abs, segs |-> base.segs \o p.segs]

\* std::path::absolute: prefixes the working directory, resolves nothing
PathAbsolute(p) ==
    IF p.abs THEN p ELSE [abs |-> TRUE, segs |-> Cwd \o p.segs]

\* the array the for loop walks
CandidatePathsMutant(fp) == <<PathJoin(ParentDir, fp), fp>>
CandidatePaths(fp) == <<fp, PathJoin(ParentDir, fp)>>

FilePaths == {[abs |-> FALSE, segs |-> <<"src", "x.rs">>],
              [abs |-> TRUE, segs |-> <<"p", "src", "x.rs">>]}
OpenErrors == {"NotFound", "PermissionDenied"}

\* what File::open can answer for p: a path that failed before fails alike
OpenOutcomes(p) ==
    IF \E i \in 1..Len(tried) : tried[i] = p
    THEN {errors[2 * (CHOOSE i \in 1..Len(tried) : tried[i] = p) - 1]}
    ELSE OpenErrors \cup {"ok"}

----------------------------------------------------------------------------
(* gather_html_macro_invocations *)

Alphabet == {"k", "{", "}", "a"}
Lines == SeqsUpTo(Alphabet, MaxLineLen)
Keywords == {<<"k">>, <<"k", "{">>}

initial_opening_brace == Last(skip_to_keyword)
should_skip_opening_brace == IsOpening(initial_opening_brace)

\* the keyword after `skip_to_keyword = &skip_to_keyword[..skip_to_keyword.len()]`
SearchKeyword ==
    IF should_skip_opening_brace
    THEN SubSeq(skip_to_keyword, 1, Len(skip_to_keyword))
    ELSE skip_to_keyword

\* the text pushed to rest_of_line for a line that holds the keyword
AfterKeyword(l) ==
    LET after == SplitOnce(l, SearchKeyword).after
        second == SplitOnce(after, <<initial_opening_brace>>)
    IN  IF should_skip_opening_brace /\ second # None THEN second.after ELSE after

GatherInit ==
    /\ g_pc = "open"
    /\ file_path \in FilePaths
    /\ skip_to_keyword \in Keywords
    /\ to_skip \in 0..(MaxStartLine - 1)
    /\ path_idx = 1
    /\ tried = <<>>
    /\ errors = <<>>
    /\ file = None
    /\ eof = FALSE
    /\ nread = 0
    /\ found_line = <<>>
    /\ rest_of_line = <<>>
    /\ lines_in = <<>>
    /\ line = <<>>
    /\ consumed = <<>>
    /\ braces_diff = 0
    /\ output = <<>>
    /\ g_result = None

\* File::open(&path) answers Ok: file = Some(f); break
OpenOk ==
    /\ g_pc = "open"
    /\ path_idx <= Len(CandidatePaths(file_path))
    /\ LET path == PathAbsolute(CandidatePaths(file_path)[path_idx])
       IN  /\ "ok" \in OpenOutcomes(path)
           /\ tried' = Append(tried, path)
           /\ file' = path
    /\ g_pc' = "find"
    /\ UNCHANGED <<lines_in, file_path, skip_to_keyword, to_skip, path_idx, errors, eof,
                   nread, found_line, rest_of_line, line, consumed,
                   braces_diff, output, g_result>>
    /\ UNCHANGED <<evars, bvars>>

\* File::open(&path) answers Err(e): the error and a newline join `errors`
OpenErr ==
    /\ g_pc = "open"
    /\ path_idx <= Len(CandidatePaths(file_path))
    /\ LET path == PathAbsolute(CandidatePaths(file_path)[path_idx])
       IN  \E e \in OpenOutcomes(path) \ {"ok"} :
              /\ tried' = Append(tried, path)
              /\ errors' = errors \o <<e, "\n">>
    /\ path_idx' = path_idx + 1
    /\ UNCHANGED <<lines_in, g_pc, file_path, skip_to_keyword, to_skip, file, eof, nread,
                   found_line, rest_of_line, line, consumed, braces_diff,
                   output, g_result>>
    /\ UNCHANGED <<evars, bvars>>

\* no candidate opened: return Err(errors)
NoFile ==
    /\ g_pc = "open"
    /\ path_idx > Len(CandidatePaths(file_path))
    /\ file = None
    /\ g_result' = Err(errors)
    /\ g_pc' = "done"
    /\ UNCHANGED <<lines_in, file_path, skip_to_keyword, to_skip, path_idx, tried, errors,
                   file, eof, nread, found_line, rest_of_line, line, consumed,
                   braces_diff, output>>
    /\ UNCHANGED <<evars, bvars>>

\* .skip(start_line - 1) drops a line
SkipLine ==
    /\ g_pc = "find"
    /\ ~eof
    /\ to_skip > 0
    /\ to_skip' = to_skip - 1
    /\ UNCHANGED <<lines_in, g_pc, file_path, skip_to_keyword, path_idx, tried, errors,
                   file, eof, nread, found_line, rest_of_line, line, consumed,
                   braces_diff, output, g_result>>
    /\ UNCHANGED <<evars, bvars>>

\* the first loop reads a line without the keyword
FindMiss ==
    /\ g_pc = "find"
    /\ ~eof
    /\ to_skip = 0
    /\ \E l \in Lines : SplitOnce(l, SearchKeyword) = None
    /\ UNCHANGED <<gvars, bvars>>
    /\ UNCHANGED <<evars, bvars>>

\* the first loop reads a line with the keyword: rest_of_line.push_str(after); break
FindHit ==
    /\ g_pc = "find"
    /\ ~eof
    /\ to_skip = 0
    /\ \E l \in Lines :
          /\ SplitOnce(l, SearchKeyword) # None
          /\ found_line' = l
          /\ nread' = Len(l)
          /\ rest_of_line' = AfterKeyword(l)
          /\ line' = AfterKeyword(l)
    /\ lines_in' = <<rest_of_line'>>
    /\ g_pc' = "scan"
    /\ UNCHANGED <<file_path, skip_to_keyword, to_skip, path_idx, tried, errors,
                   file, eof, consumed, braces_diff, output, g_result>>
    /\ UNCHANGED <<evars, bvars>>

\* the file ends before the keyword is met: rest_of_line stays empty
FindEof ==
    /\ g_pc = "find"
    /\ ~eof
    /\ eof' = TRUE
    /\ line' = rest_of_line
    /\ lines_in' = <<rest_of_line>>
    /\ g_pc' = "scan"
    /\ UNCHANGED <<file_path, skip_to_keyword, to_skip, path_idx, tried, errors,
                   file, nread, found_line, rest_of_line, consumed, braces_diff,
                   output, g_result>>
    /\ UNCHANGED <<evars, bvars>>

\* '[' | '{' | '(' => braces_diff += 1; output.push(c)
ScanOpening ==
    /\ g_pc = "scan"
    /\ line # <<>>
    /\ IsOpening(Head(line))
    /\ braces_diff' = braces_diff + 1
    /\ output' = Append(output, Head(line))
    /\ consumed' = Append(consumed, Head(line))
    /\ line' = Tail(line)
    /\ UNCHANGED <<lines_in, g_pc, file_path, skip_to_keyword, to_skip, path_idx, tried,
                   errors, file, eof, nread, found_line, rest_of_line, g_result>>
    /\ UNCHANGED <<evars, bvars>>

\* ']' | '}' | ')' => braces_diff -= 1; break 'linewise at -1, else output.push(c)
ScanClosingMutant ==
    /\ g_pc = "scan"
    /\ line # <<>>
    /\ IsClosing(Head(line))
    /\ braces_diff' = braces_diff - 1
    /\ consumed' = Append(consumed, Head(line))
    /\ line' = Tail(line)
    /\ IF braces_diff' = -1
       THEN /\ g_pc' = "ret"
            /\ output' = Append(output, Head(line))
       ELSE /\ g_pc' = g_pc
            /\ output' = Append(output, Head(line))
    /\ UNCHANGED <<lines_in, file_path, skip_to_keyword, to_skip, path_idx, tried, errors,
                   file, eof, nread, found_line, rest_of_line, g_result>>
    /\ UNCHANGED <<evars, bvars>>

ScanClosing ==
    /\ g_pc = "scan"
    /\ line # <<>>
    /\ IsClosing(Head(line))
    /\ braces_diff' = braces_diff - 1
    /\ consumed' = Append(consumed, Head(line))
    /\ line' = Tail(line)
    /\ IF braces_diff' = -1
       THEN /\ g_pc' = "ret"
            /\ output' = output
       ELSE /\ g_pc' = g_pc
            /\ output' = Append(output, Head(line))
    /\ UNCHANGED <<lines_in, file_path, skip_to_keyword, to_skip, path_idx, tried, errors,
                   file, eof, nread, found_line, rest_of_line, g_result>>
    /\ UNCHANGED <<evars, bvars>>

\* c => output.push(c)
ScanOther ==
    /\ g_pc = "scan"
    /\ line # <<>>
    /\ ~IsOpening(Head(line))
    /\ ~IsClosing(Head(line))
    /\ output' = Append(output, Head(line))
    /\ consumed' = Append(consumed, Head(line))
    /\ line' = Tail(line)
    /\ UNCHANGED <<lines_in, g_pc, file_path, skip_to_keyword, to_skip, path_idx, tried,
                   errors, file, eof, nread, found_line, rest_of_line,
                   braces_diff, g_result>>
    /\ UNCHANGED <<evars, bvars>>

\* the line is used up: output.push('\n')
ScanEndOfLine ==
    /\ g_pc = "scan"
    /\ line = <<>>
    /\ output' = Append(output, "\n")
    /\ consumed' = Append(consumed, "\n")
    /\ g_pc' = "next"
    /\ UNCHANGED <<lines_in, file_path, skip_to_keyword, to_skip, path_idx, tried, errors,
                   file, eof, nread, found_line, rest_of_line, line,
                   braces_diff, g_result>>
    /\ UNCHANGED <<evars, bvars>>

\* the chained lines_iter yields the next line
NextLine ==
    /\ g_pc = "next"
    /\ ~eof
    /\ \E l \in Lines :
          /\ nread + 1 + Len(l) <= MaxChars
          /\ line' = l
          /\ nread' = nread + 1 + Len(l)
    /\ lines_in' = Append(lines_in, line')
    /\ g_pc' = "scan"
    /\ UNCHANGED <<file_path, skip_to_keyword, to_skip, path_idx, tried, errors,
                   file, eof, found_line, rest_of_line, consumed, braces_diff,
                   output, g_result>>
    /\ UNCHANGED <<evars, bvars>>

\* the chained lines_iter is exhausted: the 'linewise loop ends
NextEof ==
    /\ g_pc = "next"
    /\ eof' = TRUE
    /\ g_pc' = "ret"
    /\ UNCHANGED <<lines_in, file_path, skip_to_keyword, to_skip, path_idx, tried, errors,
                   file, nread, found_line, rest_of_line, line, consumed,
                   braces_diff, output, g_result>>
    /\ UNCHANGED <<evars, bvars>>

\* if !output.trim().is_empty() { Ok(output) } else { Err("output is empty") }
Return ==
    /\ g_pc = "ret"
    /\ g_result' = IF ~TrimIsEmpty(output) THEN Ok(output)
                   ELSE Err(<<"output is empty">>)
    /\ g_pc' = "done"
    /\ UNCHANGED <<lines_in, file_path, skip_to_keyword, to_skip, path_idx, tried, errors,
                   file, eof, nread, found_line, rest_of_line, line, consumed,
                   braces_diff, output>>
    /\ UNCHANGED <<evars, bvars>>

NextGather ==
    \/ OpenOk \/ OpenErr \/ NoFile
    \/ SkipLine \/ FindMiss \/ FindHit \/ FindEof
    \/ ScanOpening \/ ScanClosing \/ ScanOther \/ ScanEndOfLine
    \/ NextLine \/ NextEof \/ Return

\* the function is not running
GatherIdle ==
    /\ g_pc = "idle"
    /\ file_path = [abs |-> FALSE, segs |-> <<"src", "x.rs">>]
    /\ skip_to_keyword = <<"k", "{">>
    /\ to_skip = 0
    /\ path_idx = 1
    /\ tried = <<>>
    /\ errors = <<>>
    /\ file = None
    /\ eof = FALSE
    /\ nread = 0
    /\ found_line = <<>>
    /\ rest_of_line = <<>>
    /\ lines_in = <<>>
    /\ line = <<>>
    /\ consumed = <<>>
    /\ braces_diff = 0
    /\ output = <<>>
    /\ g_result = None

----------------------------------------------------------------------------
(* The block expand_runtime_from_parsed emits, and expand_runtime_main *)

\* source texts: whether str::parse::<TokenStream> accepts the text is a
\* property of the text
CompiledText == [name |-> "compiled", lexes |-> TRUE]
RecoveredTexts == {CompiledText,
                   [name |-> "edited", lexes |-> TRUE],
                   [name |-> "unterminated", lexes |-> FALSE]}
\* Err values of gather_html_macro_invocations
RecoveryErrors == {<<"NotFound", "\n", "NotFound", "\n">>, <<"output is empty">>}
EnvValues == {"unset", "1", "0", "true"}
SourceFiles == {"src/a.rs", "src/b.rs"}
SourceLines == {3, 7}
EmittedKeywords == {"html!{", "if c"}

\* env_var("MAUD_SOURCE_NO_FALLBACK").as_deref() == Ok("1")
NoFallbackMutant == env # "unset"
NoFallback == env = "1"

\* the text __maud_input is bound to when recovery returned Err
FallbackInputMutant == [name |-> "", lexes |-> TRUE]
FallbackInput == original_input

\* payloads a panic inside parse_at_runtime can carry
PanicPayloads == {[type |-> "String", msg |-> "parse fault"],
                  [type |-> "str", msg |-> "expected block"],
                  [type |-> "other", msg |-> ""]}
\* what Interpreter::run can return for the markups of `input`
RunResults(input) == {Ok(<<"rendered", input.name>>), Err("missing variable")}

Panic(from, msg) == [tag |-> "Panic", from |-> from, msg |-> msg]

EmittedInit ==
    /\ e_pc = "gather"
    /\ maud_file_info \in SourceFiles
    /\ maud_line_info \in SourceLines
    /\ e_keyword \in EmittedKeywords
    /\ original_input = CompiledText
    /\ env \in EnvValues
    /\ recovery = None
    /\ maud_input = None
    /\ maud_vars = "empty"
    /\ main_calls = <<>>
    /\ res = None
    /\ main_ret = None
    /\ e_outcome = None

\* let __maud_input = gather_html_macro_invocations(file, line, keyword)
CallGather ==
    /\ e_pc = "gather"
    /\ recovery' \in {Ok(t) : t \in RecoveredTexts} \cup {Err(e) : e \in RecoveryErrors}
    /\ e_pc' = "match"
    /\ UNCHANGED <<maud_file_info, maud_line_info, e_keyword, original_input, env,
                   maud_input, maud_vars, main_calls, res, main_ret, e_outcome>>
    /\ UNCHANGED <<gvars, bvars>>

\* Ok(ref x) => x
MatchOk ==
    /\ e_pc = "match"
    /\ recovery.tag = "Ok"
    /\ maud_input' = recovery.val
    /\ e_pc' = "stmts"
    /\ UNCHANGED <<maud_file_info, maud_line_info, e_keyword, original_input, env,
                   recovery, maud_vars, main_calls, res, main_ret, e_outcome>>
    /\ UNCHANGED <<gvars, bvars>>

\* Err(e) with the variable set to "1": panic!("failed to find sourcecode ...")
MatchErrPanic ==
    /\ e_pc = "match"
    /\ recovery.tag = "Err"
    /\ NoFallback
    /\ e_outcome' = Panic("emitted block",
                          [text |-> "failed to find sourcecode",
                           file |-> maud_file_info,
                           line |-> maud_line_info,
                           scanning_for |-> e_keyword,
                           error |-> recovery.val])
    /\ e_pc' = "done"
    /\ UNCHANGED <<maud_file_info, maud_line_info, e_keyword, original_input, env,
                   recovery, maud_input, maud_vars, main_calls, res, main_ret>>
    /\ UNCHANGED <<gvars, bvars>>

\* Err(e) otherwise: fall back to original, unedited input
MatchErrFallback ==
    /\ e_pc = "match"
    /\ recovery.tag = "Err"
    /\ ~NoFallback
    /\ maud_input' = FallbackInput
    /\ e_pc' = "stmts"
    /\ UNCHANGED <<maud_file_info, maud_line_info, e_keyword, original_input, env,
                   recovery, maud_vars, main_calls, res, main_ret, e_outcome>>
    /\ UNCHANGED <<gvars, bvars>>

\* #stmts: the __maud_vars.insert(..) statements of the format builder
Stmts ==
    /\ e_pc = "stmts"
    /\ maud_vars' = "recorded"
    /\ e_pc' = "call_main"
    /\ UNCHANGED <<maud_file_info, maud_line_info, e_keyword, original_input, env,
                   recovery, maud_input, main_calls, res, main_ret, e_outcome>>
    /\ UNCHANGED <<gvars, bvars>>

\* expand_runtime_main(vars, input): input.parse() succeeds
MainLexOk ==
    /\ e_pc = "call_main"
    /\ maud_input.lexes
    /\ main_calls' = Append(main_calls, maud_input)
    /\ e_pc' = "main_parse"
    /\ UNCHANGED <<maud_file_info, maud_line_info, e_keyword, original_input, env,
                   recovery, maud_input, maud_vars, res, main_ret, e_outcome>>
    /\ UNCHANGED <<gvars, bvars>>

\* expand_runtime_main(vars, input): input.parse() fails,
\* unwrap_or_else(|_| panic!("{}", input))
MainLexPanic ==
    /\ e_pc = "call_main"
    /\ ~maud_input.lexes
    /\ main_calls' = Append(main_calls, maud_input)
    /\ e_outcome' = Panic("expand_runtime_main", maud_input)
    /\ e_pc' = "done"
    /\ UNCHANGED <<maud_file_info, maud_line_info, e_keyword, original_input, env,
                   recovery, maud_input, maud_vars, res, main_ret>>
    /\ UNCHANGED <<gvars, bvars>>

\* catch_unwind(|| parse_at_runtime(input.clone())) returns Ok(markups)
ParseReturns ==
    /\ e_pc = "main_parse"
    /\ res' = Ok("markups")
    /\ e_pc' = "main_run"
    /\ UNCHANGED <<maud_file_info, maud_line_info, e_keyword, original_input, env,
                   recovery, maud_input, maud_vars, main_calls, main_ret, e_outcome>>
    /\ UNCHANGED <<gvars, bvars>>

\* parse_at_runtime panics: catch_unwind returns Err(payload), and the payload
\* is downcast to String, then &'static str, else "unknown panic"
ParsePanics ==
    /\ e_pc = "main_parse"
    /\ \E payload \in PanicPayloads :
          /\ res' = Err(payload)
          /\ main_ret' = IF payload.type \in {"String", "str"}
                         THEN Err(payload.msg)
                         ELSE Err("unknown panic")
    /\ e_pc' = "render"
    /\ UNCHANGED <<maud_file_info, maud_line_info, e_keyword, original_input, env,
                   recovery, maud_input, maud_vars, main_calls, e_outcome>>
    /\ UNCHANGED <<gvars, bvars>>

\* build_interpreter(markups).run(&vars)
InterpreterRun ==
    /\ e_pc = "main_run"
    /\ main_ret' \in RunResults(maud_input)
    /\ e_pc' = "render"
    /\ UNCHANGED <<maud_file_info, maud_line_info, e_keyword, original_input, env,
                   recovery, maud_input, maud_vars, main_calls, res, e_outcome>>
    /\ UNCHANGED <<gvars, bvars>>

\* Ok(x) => PreEscaped(x)
RenderOk ==
    /\ e_pc = "render"
    /\ main_ret.tag = "Ok"
    /\ e_outcome' = [tag |-> "PreEscaped", val |-> main_ret.val]
    /\ e_pc' = "done"
    /\ UNCHANGED <<maud_file_info, maud_line_info, e_keyword, original_input, env,
                   recovery, maud_input, maud_vars, main_calls, res, main_ret>>
    /\ UNCHANGED <<gvars, bvars>>

\* Err(e) => render_runtime_error(&__maud_input, &e)
RenderErr ==
    /\ e_pc = "render"
    /\ main_ret.tag = "Err"
    /\ e_outcome' = [tag |-> "RuntimeError", input |-> maud_input, error |-> main_ret.val]
    /\ e_pc' = "done"
    /\ UNCHANGED <<maud_file_info, maud_line_info, e_keyword, original_input, env,
                   recovery, maud_input, maud_vars, main_calls, res, main_ret>>
    /\ UNCHANGED <<gvars, bvars>>

NextEmitted ==
    \/ CallGather \/ MatchOk \/ MatchErrPanic \/ MatchErrFallback \/ Stmts
    \/ MainLexOk \/ MainLexPanic \/ ParseReturns \/ ParsePanics
    \/ InterpreterRun \/ RenderOk \/ RenderErr

----------------------------------------------------------------------------
(* RuntimeBuilder *)

Digits == <<"0", "1", "2", "3", "4", "5", "6", "7", "8", "9">>

RECURSIVE to_string(_)
\* u32::to_string
to_string(n) ==
    IF n < 10 THEN <<Digits[n + 1]>>
    ELSE to_string(n \div 10) \o <<Digits[(n % 10) + 1]>>

RECURSIVE Replace(_, _, _)
\* str::replace of the one-character pattern c by the text r
Replace(s, c, r) ==
    IF s = <<>> THEN <<>>
    ELSE (IF Head(s) = c THEN r ELSE <<Head(s)>>) \o Replace(Tail(s), c, r)

RECURSIVE EscapeToString(_)
\* escape::escape_to_string: & < > " become entities
EscapeToString(s) ==
    IF s = <<>> THEN <<>>
    ELSE (CASE Head(s) = "&" -> <<"&", "a", "m", "p", ";">>
            [] Head(s) = "<" -> <<"&", "l", "t", ";">>
            [] Head(s) = ">" -> <<"&", "g", "t", ";">>
            [] Head(s) = "\"" -> <<"&", "q", "u", "o", "t", ";">>
            [] OTHER -> <<Head(s)>>)
         \o EscapeToString(Tail(s))

\* RuntimeBuilder::new
NewBuilder(vi) ==
    [vars_ident |-> vi, tokens |-> <<>>, format_str |-> <<>>, arg_track |-> 0,
     escaped_log |-> <<>>]

push_str(b, string) == [b EXCEPT !.format_str = @ \o string]

push_escaped_mutant(b, string) ==
    LET escaped == EscapeToString(
                       Replace(Replace(Replace(string, "{", <<"\\", "{">>),
                                       "}", <<"\\", "}">>),
                               "\\", <<"\\", "\\">>))
    IN  [b EXCEPT !.format_str = @ \o escaped,
                  !.escaped_log = Append(@, [string |-> string,
                                             from |-> Len(b.format_str) + 1,
                                             to |-> Len(b.format_str) + Len(escaped)])]

push_escaped(b, string) ==
    LET escaped == EscapeToString(
                       Replace(Replace(Replace(string, "\\", <<"\\", "\\">>),
                                       "{", <<"\\", "{">>),
                               "}", <<"\\", "}">>))
    IN  [b EXCEPT !.format_str = @ \o escaped,
                  !.escaped_log = Append(@, [string |-> string,
                                             from |-> Len(b.format_str) + 1,
                                             to |-> Len(b.format_str) + Len(escaped)])]

\* the `vars.insert(arg_track, { ... render_to!(&(expr), &mut buf); buf })` statement
InsertStmt(key, expr) == [stmt |-> "insert", key |-> key, expr |-> expr]

push_format_arg_mutant(b, expr) ==
    [b EXCEPT !.tokens = IF b.vars_ident
                         THEN Append(@, InsertStmt(to_string(b.arg_track), expr))
                         ELSE @,
              !.format_str = @ \o <<"{">> \o to_string(b.arg_track) \o <<"}">>]

push_format_arg(b, expr) ==
    [b EXCEPT !.tokens = IF b.vars_ident
                         THEN Append(@, InsertStmt(to_string(b.arg_track), expr))
                         ELSE @,
              !.arg_track = @ + 1,
              !.format_str = @ \o <<"{">> \o to_string(b.arg_track) \o <<"}">>]

----------------------------------------------------------------------------
(* RuntimeGenerator *)

\* markups.iter().any(|markup| matches!(*markup, Markup::Let { .. }))
AnyLetMutant(ms) == FALSE
AnyLet(ms) == \E i \in 1..Len(ms) : ms[i].kind = "Let"

\* the expression RuntimeGenerator::special hands to push_format_arg: per
\* segment its head and the nested expansion of its body
SpecialExpr(segments) ==
    [kind |-> "special",
     segments |-> [i \in 1..Len(segments) |->
                      [head |-> segments[i].head,
                       expansion |-> IF segments[i].body.raw_body
                                     THEN "expand_runtime_from_parsed"
                                     ELSE "expand_from_parsed",
                       markups |-> segments[i].body.markups]]]

\* RuntimeGenerator::special
special(segments, b) == push_format_arg(b, SpecialExpr(segments))

\* RuntimeGenerator::block
block(blk, b) == special(<<[head |-> "", body |-> blk]>>, b)

\* RuntimeGenerator::splice
splice(expr, b) == push_format_arg(b, expr)

\* RuntimeGenerator::name
name(n, b) == push_escaped(b, n)

\* the Markup::Let arm: build.tokens.extend(tokens)
let_tokens(toks, b) == [b EXCEPT !.tokens = @ \o toks]

\* the arm for every other markup: expand_from_parsed(vec![markup], 0)
fallback(m, b) == push_format_arg(b, [kind |-> "expand_from_parsed", markup |-> m])

\* the expression pushed for a toggled attribute
ToggleExpr(n, attr_type) ==
    [kind |-> IF attr_type.type = "Optional" THEN "if let Some" ELSE "if",
     cond |-> attr_type.cond, name |-> n]

RECURSIVE markup(_, _), markups_(_, _), attrs(_, _)

\* RuntimeGenerator::markups
markups_(ms, b) ==
    IF ms = <<>> THEN b ELSE markups_(Tail(ms), markup(Head(ms), b))

\* RuntimeGenerator::attrs, over the NamedAttr list desugar_attrs yields
attrs(as, b) ==
    IF as = <<>> THEN b
    ELSE LET a == Head(as)
             done ==
                 CASE a.attr_type.type = "Normal" ->
                        push_str(markup(a.attr_type.value,
                                        push_str(name(a.name, push_str(b, <<" ">>)),
                                                 <<"=", "\"">>)),
                                 <<"\"">>)
                   [] a.attr_type.type = "Optional" ->
                        push_format_arg(b, ToggleExpr(a.name, a.attr_type))
                   [] a.attr_type.type = "Empty" ->
                        name(a.name, push_str(b, <<" ">>))
                   [] a.attr_type.type = "EmptyToggled" ->
                        push_format_arg(b, ToggleExpr(a.name, a.attr_type))
         IN  attrs(Tail(as), done)

\* RuntimeGenerator::element
element(n, as, body, b) ==
    LET open == push_str(attrs(as, name(n, push_str(b, <<"<">>))), <<">">>)
    IN  IF body.type = "Block"
        THEN push_str(name(n, push_str(markups_(body.markups, open), <<"<", "/">>)),
                      <<">">>)
        ELSE open

\* RuntimeGenerator::markup
markup(m, b) ==
    CASE m.kind = "ParseError" -> b
      [] m.kind = "Block" ->
            IF AnyLet(m.markups) THEN block(m, b) ELSE markups_(m.markups, b)
      [] m.kind = "Literal" -> push_escaped(b, m.content)
      [] m.kind = "Symbol" -> name(m.symbol, b)
      [] m.kind = "Splice" -> splice(m.expr, b)
      [] m.kind = "Element" -> element(m.name, m.attrs, m.body, b)
      [] m.kind = "Let" -> let_tokens(m.tokens, b)
      [] m.kind = "Special" -> special(m.segments, b)
      [] OTHER -> fallback(m, b)

----------------------------------------------------------------------------
(* The markups a generator is run over *)

Literal(content) == [kind |-> "Literal", content |-> content]
Splice(expr) == [kind |-> "Splice", expr |-> expr]
LetOf(v) == [kind |-> "Let", tokens |-> <<[stmt |-> "let", binds |-> v]>>]
BlockOf(ms, raw) == [kind |-> "Block", markups |-> ms, raw_body |-> raw]

Literals == {Literal(<<"a">>), Literal(<<"{", "0", "}">>), Literal(<<"\\", "&">>)}

Elements ==
    {[kind |-> "Element", name |-> <<"b", "r">>, attrs |-> <<>>,
      body |-> [type |-> "Void"]],
     [kind |-> "Element", name |-> <<"p">>,
      attrs |-> <<[name |-> <<"i", "d">>,
                   attr_type |-> [type |-> "Normal", value |-> Splice("id")]],
                  [name |-> <<"c">>,
                   attr_type |-> [type |-> "Optional", cond |-> "opt"]],
                  [name |-> <<"d">>, attr_type |-> [type |-> "Empty"]],
                  [name |-> <<"e">>,
                   attr_type |-> [type |-> "EmptyToggled", cond |-> "on"]]>>,
      body |-> [type |-> "Block",
                markups |-> <<LetOf("w"), Literal(<<"<", "}">>), Splice("w")>>]]}

MarkupPool ==
    Literals
    \cup {[kind |-> "Symbol", symbol |-> <<"s">>]}
    \cup {Splice("x")}
    \cup {LetOf("v")}
    \cup {[kind |-> "Special",
           segments |-> <<[head |-> "if c",
                           body |-> BlockOf(<<Literal(<<"a">>)>>, TRUE)],
                          [head |-> "else",
                           body |-> BlockOf(<<Splice("x")>>, FALSE)]>>]}
    \cup {[kind |-> "Match"]}
    \cup {[kind |-> "ParseError"]}
    \cup {BlockOf(<<Literal(<<"a">>), Splice("x")>>, FALSE),
          BlockOf(<<LetOf("u"), Splice("u")>>, FALSE)}
    \cup Elements

\* the builder as a record, and back
Builder ==
    [vars_ident |-> vars_ident, tokens |-> tokens, format_str |-> format_str,
     arg_track |-> arg_track, escaped_log |-> escaped_log]

Becomes(b) ==
    /\ vars_ident' = b.vars_ident
    /\ tokens' = b.tokens
    /\ format_str' = b.format_str
    /\ arg_track' = b.arg_track
    /\ escaped_log' = b.escaped_log

\* RuntimeGenerator::new().markups(markups, &mut build) meets markup m
Walk(m) ==
    /\ b_pc = "build"
    /\ Len(markups) < MaxMarkups
    /\ m \in MarkupPool
    /\ Becomes(markup(m, Builder))
    /\ markups' = Append(markups, m)
    /\ UNCHANGED b_pc
    /\ UNCHANGED <<gvars, evars>>

BuilderInit ==
    /\ b_pc = "build"
    /\ markups = <<>>
    /\ vars_ident \in BOOLEAN
    /\ tokens = <<>>
    /\ format_str = <<>>
    /\ arg_track = 0
    /\ escaped_log = <<>>

MarkupParseError == \E m \in MarkupPool : m.kind = "ParseError" /\ Walk(m)
MarkupBlock == \E m \in MarkupPool : m.kind = "Block" /\ Walk(m)
MarkupLiteral == \E m \in MarkupPool : m.kind = "Literal" /\ Walk(m)
MarkupSymbol == \E m \in MarkupPool : m.kind = "Symbol" /\ Walk(m)
MarkupSplice == \E m \in MarkupPool : m.kind = "Splice" /\ Walk(m)
MarkupElement == \E m \in MarkupPool : m.kind = "Element" /\ Walk(m)
MarkupLet == \E m \in MarkupPool : m.kind = "Let" /\ Walk(m)
MarkupSpecial == \E m \in MarkupPool : m.kind = "Special" /\ Walk(m)
MarkupFallback == \E m \in MarkupPool : m.kind = "Match" /\ Walk(m)

\* build.finish() / build.format_str()
Finish ==
    /\ b_pc = "build"
    /\ b_pc' = "done"
    /\ UNCHANGED <<markups, vars_ident, tokens, format_str, arg_track, escaped_log>>
    /\ UNCHANGED <<gvars, evars>>

NextBuilder ==
    \/ MarkupParseError \/ MarkupBlock \/ MarkupLiteral \/ MarkupSymbol
    \/ MarkupSplice \/ MarkupElement \/ MarkupLet \/ MarkupSpecial
    \/ MarkupFallback \/ Finish

----------------------------------------------------------------------------
(* Properties of gather_html_macro_invocations *)

RECURSIVE Depth(_)
\* opening brackets minus closing brackets of s
Depth(s) ==
    IF s = <<>> THEN 0
    ELSE Depth(SubSeq(s, 1, Len(s) - 1))
         + (IF IsOpening(Last(s)) THEN 1 ELSE IF IsClosing(Last(s)) THEN -1 ELSE 0)

\* index of the bracket of s that closes a bracket opened just before s, 0 if none
MatchingClose(s) ==
    IF \E j \in 1..Len(s) : Depth(SubSeq(s, 1, j)) = -1
    THEN CHOOSE j \in 1..Len(s) :
            /\ Depth(SubSeq(s, 1, j)) = -1
            /\ \A i \in 1..(j - 1) : Depth(SubSeq(s, 1, i)) >= 0
    ELSE 0

RECURSIVE JoinLines(_)
\* the lines with a newline between each two
JoinLines(ls) ==
    IF ls = <<>> THEN <<>>
    ELSE IF Len(ls) = 1 THEN ls[1]
    ELSE JoinLines(SubSeq(ls, 1, Len(ls) - 1)) \o <<"\n">> \o Last(ls)

\* the keyword proper: skip_to_keyword without the opening bracket it may end in
KeywordProper ==
    IF IsOpening(Last(skip_to_keyword))
    THEN SubSeq(skip_to_keyword, 1, Len(skip_to_keyword) - 1)
    ELSE skip_to_keyword

\* what follows the keyword proper in the line where it was found
AfterProper == SplitOnce(found_line, KeywordProper).after

\* the function has returned, and in the line found the keyword is followed at
\* once by an opening bracket whose matching closing bracket is in that line
\* (skip_to_keyword is the keyword with that bracket, as expand_runtime passes
\* "html!{", or without it, as RuntimeGenerator::special passes a segment head)
BodyOnFoundLine ==
    /\ g_pc = "done"
    /\ found_line # <<>>
    /\ AfterProper # <<>>
    /\ IsOpening(Head(AfterProper))
    /\ MatchingClose(Tail(AfterProper)) > 0

\* the text between that opening bracket and its matching closing bracket
Body == SubSeq(Tail(AfterProper), 1, MatchingClose(Tail(AfterProper)) - 1)

\* C1 (as claimed): when the keyword is followed at once by an opening bracket,
\* a balanced body and the matching closing bracket, the result is Ok with
\* exactly that body: the opening bracket skipped, inner brackets kept, the
\* closing bracket and everything after it left out.
C1_BalancedBodyReturned ==
    (BodyOnFoundLine /\ ~TrimIsEmpty(Body)) => g_result = Ok(Body)

\* C6 (as claimed): when the body between the opening bracket after the keyword
\* and its matching closing bracket is empty or whitespace-only, the result is
\* the "output is empty" error; and no Ok result is empty or whitespace-only.
C6_EmptyBodyIsError ==
    /\ (BodyOnFoundLine /\ TrimIsEmpty(Body))
          => g_result = Err(<<"output is empty">>)
    /\ g_result.tag = "Ok" => ~TrimIsEmpty(g_result.val)

\* the reported path, and that path behind a parent-directory segment, as
\* File::open is handed them
ReportedPath ==
    [abs |-> TRUE, segs |-> IF file_path.abs THEN file_path.segs ELSE Cwd \o file_path.segs]
ParentPrefixedPath ==
    [abs |-> TRUE, segs |-> Cwd \o <<"..">> \o file_path.segs]

\* what C5 says apart from which paths are tried: one open error and one
\* separator per failed attempt, in order; a path that opens ends the attempts;
\* when none opens the result is Err(errors) and nothing was scanned.
OpenAttempts ==
    /\ Len(tried) <= 2
    /\ Len(tried) >= 1 => tried[1] = ReportedPath
    /\ IF file = None
       THEN Len(errors) = 2 * Len(tried)
       ELSE /\ file = Last(tried)
            /\ Len(errors) = 2 * (Len(tried) - 1)
    /\ \A i \in 1..Len(errors) :
          IF i % 2 = 1 THEN errors[i] \in OpenErrors ELSE errors[i] = "\n"
    /\ (g_pc # "open" /\ file = None) =>
          /\ g_pc = "done"
          /\ Len(tried) = 2
          /\ g_result = Err(errors)
          /\ nread = 0 /\ lines_in = <<>> /\ consumed = <<>> /\ output = <<>>
    /\ (file # None /\ g_result.tag = "Err") => g_result.val = <<"output is empty">>

\* C5 (as claimed): the second path tried is always the reported path behind a
\* parent-directory segment.
C5_SecondPathParentPrefixed ==
    /\ OpenAttempts
    /\ Len(tried) = 2 => tried[2] = ParentPrefixedPath

\* C5 (amended): the second path tried is Path::new("../").join(file_path): the
\* reported path behind a parent-directory segment when it is relative, the
\* reported path itself once more when it is absolute.
C5_MissingFile ==
    /\ OpenAttempts
    /\ Len(tried) = 2 =>
          tried[2] = IF file_path.abs THEN ReportedPath ELSE ParentPrefixedPath

\* C5 witness: neither path opened, with two different open errors
C5_Witness ==
    /\ g_pc = "done"
    /\ file = None
    /\ ~file_path.abs
    /\ errors = <<"NotFound", "\n", "PermissionDenied", "\n">>

\* C8: the depth is never below -1 and equals the bracket balance of what the
\* scan has taken; until it reaches -1 every character taken, and a newline per
\* finished line, is in the output in order; the closing bracket that takes it
\* to -1 ends the scan, is not copied, and the rest of its line and every later
\* line stay unread; no closing bracket copied took the depth below 0.
C8_BracketScan ==
    /\ braces_diff >= -1
    /\ braces_diff = Depth(consumed)
    /\ \A i \in 1..Len(output) : Depth(SubSeq(output, 1, i)) >= 0
    /\ braces_diff >= 0 => output = consumed
    /\ braces_diff = -1 =>
          /\ g_pc \in {"ret", "done"}
          /\ consumed = Append(output, Last(consumed))
          /\ IsClosing(Last(consumed))
          /\ consumed \o line = JoinLines(lines_in)
    /\ g_pc = "scan" => consumed \o line = JoinLines(lines_in)
    /\ g_pc = "next" => consumed = JoinLines(lines_in) \o <<"\n">>
    /\ (g_pc \in {"ret", "done"} /\ file # None /\ braces_diff >= 0) =>
          /\ eof
          /\ consumed = JoinLines(lines_in) \o <<"\n">>

\* C8 witness: a scan over two lines that copied nested brackets, stopped at the
\* closing bracket that took the depth to -1 and left text after it unread
C8_Witness ==
    /\ g_pc = "done"
    /\ braces_diff = -1
    /\ Len(lines_in) = 2
    /\ line # <<>>
    /\ \E i \in 1..Len(output) : IsClosing(output[i])
    /\ g_result = Ok(output)

----------------------------------------------------------------------------
(* Properties of the emitted block and expand_runtime_main *)

\* the rendering the static generator compiles for a text
StaticRendering(text) == [tag |-> "PreEscaped", val |-> <<"static", text.name>>]

C3_NoFaultEscapes ==
    /\ ~(e_outcome.tag = "Panic" /\ e_outcome.from = "expand_runtime_main")
    /\ res.tag = "Err" => main_ret.tag = "Err"

\* C7: a recovery failure with MAUD_SOURCE_NO_FALLBACK = "1" ends the block in
\* a panic naming file, line, keyword and error, and nothing is rendered; with
\* the variable unset or set to anything else it never panics, and the block
\* goes on with the originally compiled text to a rendering.
C7_StrictModeSwitch ==
    /\ (recovery.tag = "Err" /\ env = "1" /\ e_pc # "match") =>
          /\ e_pc = "done"
          /\ e_outcome = Panic("emitted block",
                               [text |-> "failed to find sourcecode",
                                file |-> maud_file_info,
                                line |-> maud_line_info,
                                scanning_for |-> e_keyword,
                                error |-> recovery.val])
          /\ maud_input = None
          /\ maud_vars = "empty"
          /\ main_calls = <<>>
    /\ (recovery.tag = "Err" /\ env # "1") =>
          /\ e_outcome.tag # "Panic"
          /\ e_pc # "match" => maud_input = original_input
          /\ e_pc = "done" => e_outcome.tag \in {"PreEscaped", "RuntimeError"}

\* C7 witness: recovery failed in strict mode and the block panicked
C7_Witness ==
    /\ e_pc = "done"
    /\ recovery = Err(<<"output is empty">>)
    /\ env = "1"
    /\ e_outcome.tag = "Panic"

----------------------------------------------------------------------------
(* Properties of the format builder *)

RECURSIVE EventsOf(_), EventsOfSeq(_), EventsOfAttrs(_)
\* the Let bindings and dynamic pieces of a markup in left-to-right,
\* depth-first order; a Block with a Let among its children is one piece
EventsOf(m) ==
    CASE m.kind = "Splice" -> <<[ev |-> "piece", expr |-> m.expr]>>
      [] m.kind = "Special" -> <<[ev |-> "piece", expr |-> SpecialExpr(m.segments)]>>
      [] m.kind = "Match" ->
            <<[ev |-> "piece", expr |-> [kind |-> "expand_from_parsed", markup |-> m]]>>
      [] m.kind = "Let" -> <<[ev |-> "let", tokens |-> m.tokens]>>
      [] m.kind = "Block" ->
            IF \E i \in 1..Len(m.markups) : m.markups[i].kind = "Let"
            THEN <<[ev |-> "piece",
                    expr |-> SpecialExpr(<<[head |-> "", body |-> m]>>)]>>
            ELSE EventsOfSeq(m.markups)
      [] m.kind = "Element" ->
            EventsOfAttrs(m.attrs)
            \o (IF m.body.type = "Block" THEN EventsOfSeq(m.body.markups) ELSE <<>>)
      [] OTHER -> <<>>

EventsOfSeq(ms) ==
    IF ms = <<>> THEN <<>> ELSE EventsOf(Head(ms)) \o EventsOfSeq(Tail(ms))

EventsOfAttrs(as) ==
    IF as = <<>> THEN <<>>
    ELSE (CASE Head(as).attr_type.type = "Normal" -> EventsOf(Head(as).attr_type.value)
            [] Head(as).attr_type.type \in {"Optional", "EmptyToggled"} ->
                  <<[ev |-> "piece",
                     expr |-> ToggleExpr(Head(as).name, Head(as).attr_type)]>>
            [] OTHER -> <<>>)
         \o EventsOfAttrs(Tail(as))

IsPiece(e) == e.ev = "piece"
Pieces(ms) == SelectSeq(EventsOfSeq(ms), IsPiece)

RECURSIVE ExpectedTokens(_, _, _)
\* the statements for a list of events: a Let's tokens as they are, and for
\* the k-th piece (from 0) the statement recording it under key k
ExpectedTokens(evs, vi, k) ==
    IF evs = <<>> THEN <<>>
    ELSE IF Head(evs).ev = "let"
         THEN Head(evs).tokens \o ExpectedTokens(Tail(evs), vi, k)
         ELSE (IF vi THEN <<InsertStmt(to_string(k), Head(evs).expr)>> ELSE <<>>)
              \o ExpectedTokens(Tail(evs), vi, k + 1)

RECURSIVE Number(_)
\* the number a text of digits denotes, -1 if it is empty or holds a non-digit
Number(ds) ==
    IF ds = <<>> \/ \E i \in 1..Len(ds) : \A d \in 1..10 : Digits[d] # ds[i]
    THEN -1
    ELSE LET last == (CHOOSE d \in 1..10 : Digits[d] = Last(ds)) - 1
         IN  IF Len(ds) = 1 THEN last
             ELSE 10 * Number(SubSeq(ds, 1, Len(ds) - 1)) + last

RECURSIVE PlaceholderIds(_, _)
\* read the template from index i: a backslash escapes the character after it;
\* any other `{` must start a placeholder {v}, read as v, or as -1 when it
\* does not
PlaceholderIds(t, i) ==
    IF i > Len(t) THEN <<>>
    ELSE IF t[i] = "\\" THEN PlaceholderIds(t, i + 2)
    ELSE IF t[i] = "{"
         THEN IF \E j \in (i + 1)..Len(t) : t[j] = "}"
              THEN LET j == CHOOSE j \in (i + 1)..Len(t) :
                               /\ t[j] = "}"
                               /\ \A h \in (i + 1)..(j - 1) : t[h] # "}"
                   IN  <<Number(SubSeq(t, i + 1, j - 1))>> \o PlaceholderIds(t, j + 1)
              ELSE <<-1>>
    ELSE PlaceholderIds(t, i + 1)

IsInsert(tok) == tok.stmt = "insert"
Inserts(toks) == SelectSeq(toks, IsInsert)

InsertAt(ms, pos, m) == SubSeq(ms, 1, pos) \o <<m>> \o SubSeq(ms, pos + 1, Len(ms))

RECURSIVE Without(_, _)
\* ms without the markups of kind k, at the top and in element bodies
Without(ms, k) ==
    IF ms = <<>> THEN <<>>
    ELSE LET m == Head(ms)
         IN  (IF m.kind = k THEN <<>>
              ELSE IF m.kind = "Element" /\ m.body.type = "Block"
              THEN <<[m EXCEPT !.body.markups = Without(@, k)]>>
              ELSE <<m>>)
             \o Without(Tail(ms), k)

\* the ids a run of the generator over ms gives out are those given out so far
SameIds(ms, ids) ==
    LET b == markups_(ms, NewBuilder(vars_ident))
    IN  /\ b.arg_track = arg_track
        /\ Inserts(b.tokens) = Inserts(tokens)
        /\ PlaceholderIds(b.format_str, 1) = ids

\* C4: with N dynamic pieces walked, the placeholders of the template are
\* {0} .. {N-1}, once each and in order, the i-th piece in left-to-right,
\* depth-first order is recorded under key i-1, and inserting a literal
\* anywhere, or deleting the literals, changes no id.
C4_VarIdsByTraversalOrder ==
    LET pieces == Pieces(markups)
        ids == PlaceholderIds(format_str, 1)
    IN  /\ arg_track = Len(pieces)
        /\ ids = [i \in 1..Len(pieces) |-> i - 1]
        /\ vars_ident =>
              Inserts(tokens) =
                 [i \in 1..Len(pieces) |-> InsertStmt(to_string(i - 1), pieces[i].expr)]
        /\ ~vars_ident => Inserts(tokens) = <<>>
        /\ b_pc = "done" =>
              /\ \A pos \in 0..Len(markups) : \A lit \in Literals :
                    SameIds(InsertAt(markups, pos, lit), ids)
              /\ SameIds(Without(markups, "Literal"), ids)

\* C4 witness: dynamic pieces of every sort walked, literals among them
C4_Witness ==
    /\ b_pc = "done"
    /\ vars_ident
    /\ arg_track = 5
    /\ \E i \in 1..Len(markups) : markups[i].kind = "Element"
    /\ \E i \in 1..Len(markups) : markups[i].kind = "Special"
    /\ \E i \in 1..Len(markups) : markups[i].kind = "Literal"

\* a backslash before each of \ { } and nothing else changed
Backslashed(s) ==
    IF s = <<>> THEN <<>>
    ELSE LET go[i \in 0..Len(s)] ==
                 IF i = 0 THEN <<>>
                 ELSE go[i - 1] \o (IF s[i] \in {"\\", "{", "}"}
                                    THEN <<"\\", s[i]>> ELSE <<s[i]>>)
         IN  go[Len(s)]

RECURSIVE EscapedTexts(_), EscapedTextsOfAttrs(_)
\* the literals, symbols, element names and names of untoggled attributes, in
\* the order their text joins the template
EscapedTexts(ms) ==
    IF ms = <<>> THEN <<>>
    ELSE LET m == Head(ms)
         IN  (CASE m.kind = "Literal" -> <<m.content>>
                [] m.kind = "Symbol" -> <<m.symbol>>
                [] m.kind = "Block" ->
                      IF \E i \in 1..Len(m.markups) : m.markups[i].kind = "Let"
                      THEN <<>> ELSE EscapedTexts(m.markups)
                [] m.kind = "Element" ->
                      <<m.name>> \o EscapedTextsOfAttrs(m.attrs)
                      \o (IF m.body.type = "Block"
                          THEN EscapedTexts(m.body.markups) \o <<m.name>>
                          ELSE <<>>)
                [] OTHER -> <<>>)
             \o EscapedTexts(Tail(ms))

EscapedTextsOfAttrs(as) ==
    IF as = <<>> THEN <<>>
    ELSE (CASE Head(as).attr_type.type = "Normal" ->
                  <<Head(as).name>> \o EscapedTexts(<<Head(as).attr_type.value>>)
            [] Head(as).attr_type.type = "Empty" -> <<Head(as).name>>
            [] OTHER -> <<>>)
         \o EscapedTextsOfAttrs(Tail(as))

\* C9: the text the template gets for each literal, symbol, element name and
\* attribute name is its HTML-escaped text with a backslash put before each
\* \ { } and nothing else changed; and every `{` of the template that no
\* backslash escapes starts a placeholder {v} with v below the var-id counter.
C9_TemplateEscaping ==
    /\ [i \in 1..Len(escaped_log) |-> escaped_log[i].string] = EscapedTexts(markups)
    /\ \A i \in 1..Len(escaped_log) :
          SubSeq(format_str, escaped_log[i].from, escaped_log[i].to)
             = Backslashed(EscapeToString(escaped_log[i].string))
    /\ LET ids == PlaceholderIds(format_str, 1)
       IN  \A i \in 1..Len(ids) : ids[i] >= 0 /\ ids[i] < arg_track

\* C9 witness: a literal holding braces around a digit and one holding a
\* backslash were escaped into a template that also holds placeholders
C9_Witness ==
    /\ b_pc = "done"
    /\ arg_track >= 1
    /\ \E i \in 1..Len(escaped_log) : escaped_log[i].string = <<"{", "0", "}">>
    /\ \E i \in 1..Len(escaped_log) : escaped_log[i].string = <<"\\", "&">>

\* C10: the tokens of every Let met in the walk are in the statements as they
\* are and in walk order, before the recording statement of every piece met
\* later; a Let takes no var-id and adds nothing to the template; a Block with
\* a Let among its children is one piece with one var-id, and none of its
\* tokens reach the statements.
C10_LetThreading ==
    /\ tokens = ExpectedTokens(EventsOfSeq(markups), vars_ident, 0)
    /\ LET b == markups_(Without(markups, "Let"), NewBuilder(vars_ident))
       IN  /\ b.format_str = format_str
           /\ b.arg_track = arg_track
    /\ \A i \in 1..Len(markups) :
          (markups[i].kind = "Block" /\ \E j \in 1..Len(markups[i].markups) :
                                           markups[i].markups[j].kind = "Let")
          => LET before == markups_(SubSeq(markups, 1, i - 1), NewBuilder(vars_ident))
                 after == markups_(SubSeq(markups, 1, i), NewBuilder(vars_ident))
             IN  /\ after.arg_track = before.arg_track + 1
                 /\ \A j \in (Len(before.tokens) + 1)..Len(after.tokens) :
                       after.tokens[j].stmt = "insert"

\* C10 witness: a Let, then a Block holding a Let, then a splice
C10_Witness ==
    /\ b_pc = "done"
    /\ vars_ident
    /\ markups = <<LetOf("v"), BlockOf(<<LetOf("u"), Splice("u")>>, FALSE), Splice("x")>>
    /\ Len(tokens) = 3

----------------------------------------------------------------------------
(* Specifications *)

\* no emitted block is running
EmittedIdle ==
    /\ e_pc = "idle"
    /\ maud_file_info = "src/a.rs"
    /\ maud_line_info = 3
    /\ e_keyword = "html!{"
    /\ original_input = CompiledText
    /\ env = "unset"
    /\ recovery = None
    /\ maud_input = None
    /\ maud_vars = "empty"
    /\ main_calls = <<>>
    /\ res = None
    /\ main_ret = None
    /\ e_outcome = None

\* no generator is running
BuilderIdle ==
    /\ b_pc = "idle"
    /\ markups = <<>>
    /\ vars_ident = FALSE
    /\ tokens = <<>>
    /\ format_str = <<>>
    /\ arg_track = 0
    /\ escaped_log = <<>>

InitGather == GatherInit /\ EmittedIdle /\ BuilderIdle
SpecGather == InitGather /\ [][NextGather]_vars

InitEmitted == EmittedInit /\ GatherIdle /\ BuilderIdle
SpecEmitted == InitEmitted /\ [][NextEmitted]_vars

InitBuilder == BuilderInit /\ GatherIdle /\ EmittedIdle
SpecBuilder == InitBuilder /\ [][NextBuilder]_vars

====
